---- MODULE Spec2Model ----
(***************************************************************************)
(* groot/rhist TFormula streamer (Formula.MarshalROOT / UnmarshalROOT and  *)
(* the two container codecs of formula.go) over the rbytes buffers, and    *)
(* the directory name;cycle resolution exercised by TestFileDirectory.     *)
(*                                                                         *)
(* A buffer is a sequence of cells; every scalar (int16 version, int32     *)
(* length or value, bool, char, float64) occupies one cell, a string is a  *)
(* length cell followed by its chars.  Positions and frame lengths count   *)
(* cells.  Strings are sequences of small integers.                        *)
(***************************************************************************)
EXTENDS Integers, Sequences, FiniteSets, TLC

\* ------------------------------------------------------------------ bounds
MaxKeys == 2        \* number of distinct parameter names available to params
MaxParts == 1       \* greatest length of linearParts
MaxMarshal == 2     \* MarshalROOT calls per behaviour
MaxUnmarshal == 2   \* UnmarshalROOT calls per behaviour
MaxCycle == 3       \* greatest cycle stored in a Directory
MaxDirLen == 3      \* greatest number of Keys in a Directory

\* ------------------------------------------------------- program constants
rvers_Formula == 13
FormulaFloor == 12
FormulaTested == 13
rvers_StreamerInfo == 9
rvers_Named == 1
rvers_Object == 1

NoErr == "nil"
NoPanic == "none"
NoRet == "none"

\* rtypes.Factory: the class ids with a registered constructor.
Registry == {1, 2}
UnregisteredClass == CHOOSE c \in 1..3 : c \notin Registry

\* ------------------------------------------------------------ Go values
\* A nil map / nil slice is distinct from an empty one.
NilMap == [nil |-> TRUE, m |-> <<>>]
MkMap(m) == [nil |-> FALSE, m |-> m]
NilVec == [nil |-> TRUE, s |-> <<>>]
MkVec(s) == [nil |-> FALSE, s |-> s]
NilObj == [nil |-> TRUE, class |-> 0, val |-> 0]
MkObj(c, v) == [nil |-> FALSE, class |-> c, val |-> v]

NewNamed(name, title) == [name |-> name, title |-> title]

newFormula ==
  [named |-> NewNamed(<<>>, <<>>), clingParams |-> <<>>, allParamsSet |-> FALSE,
   params |-> NilMap, formula |-> <<>>, ndim |-> 0, linearParts |-> NilVec,
   vectorized |-> FALSE]

RVersion == rvers_Formula

\* Let(e, Body) is Body(x) with x bound to the value of e, so that e is
\* evaluated once however often Body uses it.
Let(e, Body(_)) == CHOOSE y \in {Body(x) : x \in {e}} : TRUE

\* ------------------------------------------------------- rbytes.WBuffer
\* w = [buf, err, log]; the cursor is Len(w.buf).  log records the frames
\* opened and closed: [op, pos, cur].
NewWBuffer == [buf |-> <<>>, err |-> NoErr, log |-> <<>>]

WPos(w) == Len(w.buf)

WriteCell(w, v) ==
  IF w.err # NoErr THEN w ELSE [w EXCEPT !.buf = Append(@, v)]

WriteI32(w, v) == WriteCell(w, v)

WriteBool(w, b) == WriteCell(w, IF b THEN 1 ELSE 0)

\* The cells of s appended in one write.
WriteCells(w, s) ==
  IF w.err # NoErr THEN w ELSE [w EXCEPT !.buf = @ \o s]

WriteString(w, s) == WriteCells(w, <<Len(s)>> \o s)

WriteStdVectorF64(w, s) == WriteCells(w, <<Len(s)>> \o s)

\* beginRecord: writes the version tag, reserves the length field and
\* returns the position of the reservation.
WriteVersion(w, vers) ==
  IF w.err # NoErr THEN [w |-> w, pos |-> 0]
  ELSE [w |-> [w EXCEPT !.buf = @ \o <<vers, 0>>,
                        !.log = Append(@, [op |-> "begin", pos |-> WPos(w) + 1,
                                           cur |-> WPos(w) + 1])],
        pos |-> WPos(w) + 1]

\* endRecord: length = currentPosition - reservedPosition, written over the
\* reserved field; returns the length and the buffer's error.
SetByteCount(w, pos) ==
  IF w.err # NoErr THEN [w |-> w, n |-> 0, err |-> w.err]
  ELSE [w |-> [w EXCEPT !.buf[pos + 1] = WPos(w) - pos,
                        !.log = Append(@, [op |-> "end", pos |-> pos, cur |-> WPos(w)])],
        n |-> WPos(w) - pos, err |-> NoErr]

\* rbase.Named.MarshalROOT
WriteNamed(w, named) ==
  IF w.err # NoErr THEN w
  ELSE Let(WriteVersion(w, rvers_Named), LAMBDA h :
       Let(WriteString(h.w, named.name), LAMBDA w1 :
       Let(WriteString(w1, named.title), LAMBDA w2 :
       SetByteCount(w2, h.pos).w)))

WriteObject(w, named) == WriteNamed(w, named)

\* A polymorphic reference: 0 for nil, else the class tag followed by the
\* object's own framed record.
WriteObjectAny(w, o) ==
  IF w.err # NoErr THEN w
  ELSE IF o.nil THEN WriteCell(w, 0)
  ELSE Let(WriteCell(w, o.class), LAMBDA w1 :
       Let(WriteVersion(w1, rvers_Object), LAMBDA h :
       Let(WriteI32(h.w, o.val), LAMBDA w2 :
       SetByteCount(w2, h.pos).w)))

\* ---------------------------------------------------- formula.go, writers
RECURSIVE writeMapEntries(_, _, _, _)
writeMapEntries(w, m, order, i) ==
  IF i > Len(order) THEN w
  ELSE Let(WriteString(w, order[i]), LAMBDA w1 :
       Let(WriteI32(w1, m[order[i]]), LAMBDA w2 :
       writeMapEntries(w2, m, order, i + 1)))

\* Mutant: the map frame is never closed.
writeMapStringIntUnclosed(w, pm, order) ==
  IF w.err # NoErr THEN w
  ELSE Let(WriteVersion(w, rvers_StreamerInfo), LAMBDA h :
       Let(WriteI32(h.w, Cardinality(DOMAIN pm.m)), LAMBDA w1 :
       writeMapEntries(w1, pm.m, order, 1)))

\* order is the sequence in which `range m` yields the keys of m.
writeMapStringInt(w, pm, order) ==
  IF w.err # NoErr THEN w
  ELSE Let(WriteVersion(w, rvers_StreamerInfo), LAMBDA h :
       Let(WriteI32(h.w, Cardinality(DOMAIN pm.m)), LAMBDA w1 :
       Let(writeMapEntries(w1, pm.m, order, 1), LAMBDA w2 :
       SetByteCount(w2, h.pos).w)))

RECURSIVE writeObjEntries(_, _, _)
writeObjEntries(w, vs, i) ==
  IF i > Len(vs) THEN w
  ELSE Let(WriteObjectAny(w, vs[i]), LAMBDA w1 : writeObjEntries(w1, vs, i + 1))

writeStdVectorObjP(w, pv) ==
  IF w.err # NoErr THEN w
  ELSE Let(WriteVersion(w, rvers_StreamerInfo), LAMBDA h :
       Let(WriteI32(h.w, Len(pv.s)), LAMBDA w1 :
       Let(writeObjEntries(w1, pv.s, 1), LAMBDA w2 :
       SetByteCount(w2, h.pos).w)))

\* Mutant: allParamsSet is written where vectorized belongs.
MarshalROOTSwapFlags(f, w, order) ==
  IF w.err # NoErr THEN [w |-> w, n |-> 0, err |-> w.err]
  ELSE Let(WriteVersion(w, RVersion), LAMBDA h :
       Let(WriteObject(h.w, f.named), LAMBDA w1 :
       Let(WriteStdVectorF64(w1, f.clingParams), LAMBDA w2 :
       Let(WriteBool(w2, f.allParamsSet), LAMBDA w3 :
       Let(writeMapStringInt(w3, f.params, order), LAMBDA w4 :
       Let(WriteString(w4, f.formula), LAMBDA w5 :
       Let(WriteI32(w5, f.ndim), LAMBDA w6 :
       Let(writeStdVectorObjP(w6, f.linearParts), LAMBDA w7 :
       Let(WriteBool(w7, f.allParamsSet), LAMBDA w8 :
       SetByteCount(w8, h.pos))))))))))

MarshalROOT(f, w, order) ==
  IF w.err # NoErr THEN [w |-> w, n |-> 0, err |-> w.err]
  ELSE Let(WriteVersion(w, RVersion), LAMBDA h :
       Let(WriteObject(h.w, f.named), LAMBDA w1 :
       Let(WriteStdVectorF64(w1, f.clingParams), LAMBDA w2 :
       Let(WriteBool(w2, f.allParamsSet), LAMBDA w3 :
       Let(writeMapStringInt(w3, f.params, order), LAMBDA w4 :
       Let(WriteString(w4, f.formula), LAMBDA w5 :
       Let(WriteI32(w5, f.ndim), LAMBDA w6 :
       Let(writeStdVectorObjP(w6, f.linearParts), LAMBDA w7 :
       Let(WriteBool(w7, f.vectorized), LAMBDA w8 :
       SetByteCount(w8, h.pos))))))))))

\* ------------------------------------------------------- rbytes.RBuffer
\* r = [buf, pos, err, log]; log records every buffer operation issued:
\* [op, class, eb, pb, pa, ea, a, b] with the error and position before and
\* after it and two operands (consumed/recorded for CheckByteCount).
NewRBuffer(bytes) == [buf |-> bytes, pos |-> 0, err |-> NoErr, log |-> <<>>]

Ev(r0, r1, op, class, a, b) ==
  [r1 EXCEPT !.log = Append(@, [op |-> op, class |-> class, eb |-> r0.err,
                                pb |-> r0.pos, pa |-> r1.pos, ea |-> r1.err,
                                a |-> a, b |-> b])]

\* A read on a buffer in error is a no-op returning the zero value; a read
\* past the end sets BufferExhausted.
ReadCell(r) ==
  IF r.err # NoErr THEN [r |-> r, v |-> 0]
  ELSE IF r.pos + 1 > Len(r.buf) THEN [r |-> [r EXCEPT !.err = "BufferExhausted"], v |-> 0]
  ELSE [r |-> [r EXCEPT !.pos = @ + 1], v |-> r.buf[r.pos + 1]]

\* A length cell followed by that many cells.
ReadCells(r) ==
  Let(ReadCell(r), LAMBDA c :
    IF c.r.err # NoErr THEN [r |-> c.r, v |-> <<>>]
    ELSE IF c.v < 0 \/ c.r.pos + c.v > Len(r.buf)
         THEN [r |-> [c.r EXCEPT !.err = "BufferExhausted"], v |-> <<>>]
    ELSE [r |-> [c.r EXCEPT !.pos = @ + c.v],
          v |-> SubSeq(r.buf, c.r.pos + 1, c.r.pos + c.v)])

ReadI32(r) ==
  Let(ReadCell(r), LAMBDA x : [r |-> Ev(r, x.r, "ReadI32", "", x.v, 0), v |-> x.v])

ReadBool(r) ==
  Let(ReadCell(r), LAMBDA x : [r |-> Ev(r, x.r, "ReadBool", "", x.v, 0), v |-> (x.v # 0)])

ReadString(r) ==
  Let(ReadCells(r), LAMBDA x : [r |-> Ev(r, x.r, "ReadString", "", Len(x.v), 0), v |-> x.v])

\* The destination slice is left as it was when the read fails.
ReadStdVectorF64(r, sli) ==
  Let(ReadCells(r), LAMBDA x :
    [r |-> Ev(r, x.r, "ReadStdVectorF64", "", Len(x.v), 0),
     v |-> IF x.r.err # NoErr THEN sli ELSE x.v])

\* beginRecord: reads the version tag and the recorded length; pos is the
\* position of the length field, from which the record's length is counted.
ReadVersion(r, class) ==
  IF r.err # NoErr
  THEN [r |-> Ev(r, r, "ReadVersion", class, 0, 0), vers |-> 0, pos |-> 0, bcnt |-> 0]
  ELSE Let(ReadCell(r), LAMBDA x :
       Let(ReadCell(x.r), LAMBDA y :
         [r |-> Ev(r, y.r, "ReadVersion", class, x.v, y.v),
          vers |-> x.v, pos |-> IF x.r.err # NoErr THEN 0 ELSE x.r.pos, bcnt |-> y.v]))

\* endRecord: a mismatch between the bytes consumed since the length field
\* and the recorded length is a FrameLengthMismatch; the cursor is not moved.
CheckByteCount(r, pos, bcnt, beg, class) ==
  IF r.err # NoErr THEN Ev(r, r, "CheckByteCount", class, r.pos - pos, bcnt)
  ELSE IF r.pos - pos # bcnt
       THEN Ev(r, [r EXCEPT !.err = "FrameLengthMismatch"], "CheckByteCount", class,
               r.pos - pos, bcnt)
  ELSE Ev(r, r, "CheckByteCount", class, r.pos - pos, bcnt)

\* Sticky: the first error set on the buffer stays.
SetErr(r, e) ==
  IF r.err # NoErr THEN Ev(r, r, "SetErr", e, 0, 0)
  ELSE Ev(r, [r EXCEPT !.err = e], "SetErr", e, 0, 0)

\* rbase.Named.UnmarshalROOT
ReadNamed(r, named) ==
  IF r.err # NoErr THEN [r |-> r, v |-> named]
  ELSE Let(ReadVersion(r, "TNamed"), LAMBDA h :
         IF h.vers > rvers_Named
         THEN [r |-> SetErr(h.r, "UnsupportedVersion"), v |-> named]
         ELSE Let(ReadString(h.r), LAMBDA n :
              Let(ReadString(n.r), LAMBDA t :
                [r |-> CheckByteCount(t.r, h.pos, h.bcnt, r.pos, "TNamed"),
                 v |-> NewNamed(n.v, t.v)])))

ReadObject(r, named) == ReadNamed(r, named)

\* The registered object's own record, read into a blank instance of class c.
ReadRegistered(r, c) ==
  Let(ReadVersion(r, "TObject"), LAMBDA h :
    IF h.vers > rvers_Object
    THEN [r |-> SetErr(h.r, "UnsupportedVersion"), v |-> NilObj]
    ELSE Let(ReadI32(h.r), LAMBDA x :
         Let(CheckByteCount(x.r, h.pos, h.bcnt, r.pos, "TObject"), LAMBDA r1 :
           [r |-> r1, v |-> IF r1.err # NoErr THEN NilObj ELSE MkObj(c, x.v)])))

\* A polymorphic reference: the class tag is looked up in the Registry, a
\* blank instance is constructed and decodes itself.
ReadObjectAny(r) ==
  IF r.err # NoErr THEN [r |-> Ev(r, r, "ReadObjectAny", "", 0, 0), v |-> NilObj]
  ELSE Let(ReadCell(r), LAMBDA t :
         IF t.r.err # NoErr \/ t.v = 0
         THEN [r |-> Ev(r, t.r, "ReadObjectAny", "", t.v, 0), v |-> NilObj]
         ELSE IF t.v \notin Registry
         THEN [r |-> Ev(r, [t.r EXCEPT !.err = "UnknownClass"], "ReadObjectAny", "", t.v, 0),
               v |-> NilObj]
         ELSE Let(ReadRegistered(t.r, t.v), LAMBDA x :
                [r |-> Ev(r, x.r, "ReadObjectAny", "", t.v, 0), v |-> x.v]))

\* ---------------------------------------------------- formula.go, readers
MapPut(o, k, v) == [x \in (DOMAIN o) \cup {k} |-> IF x = k THEN v ELSE o[x]]

RECURSIVE readMapEntries(_, _, _, _)
readMapEntries(r, o, i, n) ==
  IF i >= n THEN [r |-> r, v |-> o]
  ELSE Let(ReadString(r), LAMBDA k :
       Let(ReadI32(k.r), LAMBDA v :
       Let(MapPut(o, k.v, v.v), LAMBDA o1 :
       readMapEntries(v.r, o1, i + 1, n))))

\* Mutant: the end-of-record check is left out.
readMapStringIntUnchecked(r) ==
  IF r.err # NoErr THEN [r |-> r, v |-> NilMap]
  ELSE Let(ReadVersion(r, "map<TString,int,TFormulaParamOrder>"), LAMBDA h :
         IF h.vers # rvers_StreamerInfo
         THEN [r |-> SetErr(h.r, "InvalidVersion"), v |-> NilMap]
         ELSE Let(ReadI32(h.r), LAMBDA n :
              Let(readMapEntries(n.r, <<>>, 0, n.v), LAMBDA e :
                [r |-> e.r, v |-> MkMap(e.v)])))

\* Mutant: a version mismatch returns an empty map, not a nil one.
readMapStringIntEmpty(r) ==
  IF r.err # NoErr THEN [r |-> r, v |-> NilMap]
  ELSE Let(ReadVersion(r, "map<TString,int,TFormulaParamOrder>"), LAMBDA h :
         IF h.vers # rvers_StreamerInfo
         THEN [r |-> SetErr(h.r, "InvalidVersion"), v |-> MkMap(<<>>)]
         ELSE Let(ReadI32(h.r), LAMBDA n :
              Let(readMapEntries(n.r, <<>>, 0, n.v), LAMBDA e :
                [r |-> CheckByteCount(e.r, h.pos, h.bcnt, r.pos,
                                      "map<TString,int,TFormulaParamOrder>"),
                 v |-> MkMap(e.v)])))

readMapStringInt(r) ==
  IF r.err # NoErr THEN [r |-> r, v |-> NilMap]
  ELSE Let(ReadVersion(r, "map<TString,int,TFormulaParamOrder>"), LAMBDA h :
         IF h.vers # rvers_StreamerInfo
         THEN [r |-> SetErr(h.r, "InvalidVersion"), v |-> NilMap]
         ELSE Let(ReadI32(h.r), LAMBDA n :
              Let(readMapEntries(n.r, <<>>, 0, n.v), LAMBDA e :
                [r |-> CheckByteCount(e.r, h.pos, h.bcnt, r.pos,
                                      "map<TString,int,TFormulaParamOrder>"),
                 v |-> MkMap(e.v)])))

RECURSIVE readObjEntries(_, _, _, _)
readObjEntries(r, o, i, n) ==
  IF i >= n THEN [r |-> r, v |-> o]
  ELSE Let(ReadObjectAny(r), LAMBDA x :
       Let(Append(o, x.v), LAMBDA o1 :
       readObjEntries(x.r, o1, i + 1, n)))

\* Mutant: a reference of unknown class is skipped and the error dropped.
readStdVectorObjPSkipping(r) ==
  IF r.err # NoErr THEN [r |-> r, v |-> NilVec, panic |-> NoPanic]
  ELSE Let(ReadVersion(r, "vector<TObject*>"), LAMBDA h :
         IF h.vers # rvers_StreamerInfo
         THEN [r |-> SetErr(h.r, "InvalidVersion"), v |-> NilVec, panic |-> NoPanic]
         ELSE Let(ReadI32(h.r), LAMBDA n :
                IF n.v < 0
                THEN [r |-> n.r, v |-> NilVec, panic |-> "makeslice"]
                ELSE Let(readObjEntries(n.r, <<>>, 0, n.v), LAMBDA e :
                       [r |-> IF e.r.err = "UnknownClass"
                              THEN [e.r EXCEPT !.err = NoErr]
                              ELSE CheckByteCount(e.r, h.pos, h.bcnt, r.pos,
                                                  "vector<TObject*>"),
                        v |-> MkVec(e.v), panic |-> NoPanic])))

\* make([]root.Object, n) panics for a negative n.
readStdVectorObjP(r) ==
  IF r.err # NoErr THEN [r |-> r, v |-> NilVec, panic |-> NoPanic]
  ELSE Let(ReadVersion(r, "vector<TObject*>"), LAMBDA h :
         IF h.vers # rvers_StreamerInfo
         THEN [r |-> SetErr(h.r, "InvalidVersion"), v |-> NilVec, panic |-> NoPanic]
         ELSE Let(ReadI32(h.r), LAMBDA n :
                IF n.v < 0
                THEN [r |-> n.r, v |-> NilVec, panic |-> "makeslice"]
                ELSE Let(readObjEntries(n.r, <<>>, 0, n.v), LAMBDA e :
                       [r |-> CheckByteCount(e.r, h.pos, h.bcnt, r.pos, "vector<TObject*>"),
                        v |-> MkVec(e.v), panic |-> NoPanic])))

\* The fields of a supported record, read in declaration order.
ReadFields(f, r, h) ==
  Let(ReadObject(h.r, f.named), LAMBDA a1 :
  Let(ReadStdVectorF64(a1.r, f.clingParams), LAMBDA a2 :
  Let(ReadBool(a2.r), LAMBDA a3 :
  Let(readMapStringInt(a3.r), LAMBDA a4 :
  Let(ReadString(a4.r), LAMBDA a5 :
  Let(ReadI32(a5.r), LAMBDA a6 :
  Let(readStdVectorObjP(a6.r), LAMBDA a7 :
  Let([f EXCEPT !.named = a1.v, !.clingParams = a2.v, !.allParamsSet = a3.v,
                !.params = a4.v, !.formula = a5.v, !.ndim = a6.v], LAMBDA f6 :
    IF a7.panic # NoPanic
    THEN [f |-> f6, r |-> a7.r, ret |-> NoRet, panic |-> a7.panic]
    ELSE Let(ReadBool(a7.r), LAMBDA a8 :
         Let(CheckByteCount(a8.r, h.pos, h.bcnt, r.pos, "TFormula"), LAMBDA r9 :
           [f |-> [f6 EXCEPT !.linearParts = a7.v, !.vectorized = a8.v],
            r |-> r9, ret |-> r9.err, panic |-> NoPanic]))))))))))

\* Mutant: the floor is one version too low.
UnmarshalROOTLowFloor(f, r) ==
  IF r.err # NoErr THEN [f |-> f, r |-> r, ret |-> r.err, panic |-> NoPanic]
  ELSE Let(ReadVersion(r, "TFormula"), LAMBDA h :
         IF h.vers > rvers_Formula
         THEN [f |-> f, r |-> h.r, ret |-> NoRet, panic |-> "UnsupportedVersion"]
         ELSE IF h.vers < FormulaFloor - 1 \/ h.vers > FormulaTested
         THEN [f |-> f, r |-> h.r, ret |-> NoRet, panic |-> "ObsoleteVersion"]
         ELSE ReadFields(f, r, h))

\* The result: the receiver after the call, the buffer, the returned error
\* (NoRet when the call panicked) and the panic (NoPanic when it returned).
UnmarshalROOT(f, r) ==
  IF r.err # NoErr THEN [f |-> f, r |-> r, ret |-> r.err, panic |-> NoPanic]
  ELSE Let(ReadVersion(r, "TFormula"), LAMBDA h :
         IF h.vers > rvers_Formula
         THEN [f |-> f, r |-> h.r, ret |-> NoRet, panic |-> "UnsupportedVersion"]
         ELSE IF h.vers < FormulaFloor \/ h.vers > FormulaTested
         THEN [f |-> f, r |-> h.r, ret |-> NoRet, panic |-> "ObsoleteVersion"]
         ELSE ReadFields(f, r, h))

\* ------------------------------------------------- rootio Directory / Keys
NoKey == [name |-> "", cycle |-> 0, class |-> ""]

KeysNamed(d, name) == {i \in 1..Len(d) : d[i].name = name}

MaxCycleOf(d, name) ==
  CHOOSE c \in {d[i].cycle : i \in KeysNamed(d, name)} :
    \A i \in KeysNamed(d, name) : d[i].cycle <= c

KeyAt(d, name, cycle) ==
  d[CHOOSE i \in KeysNamed(d, name) : d[i].cycle = cycle]

\* Mutant: a query without cycle gets the first Key of that name.
GetFirst(d, q) ==
  IF KeysNamed(d, q.name) = {} THEN [found |-> FALSE, key |-> NoKey]
  ELSE IF ~q.hasCycle
       THEN [found |-> TRUE,
             key |-> d[CHOOSE i \in KeysNamed(d, q.name) :
                         \A j \in KeysNamed(d, q.name) : i <= j]]
  ELSE IF q.cycle = 0 THEN [found |-> FALSE, key |-> NoKey]
  ELSE IF \E i \in KeysNamed(d, q.name) : d[i].cycle = q.cycle
       THEN [found |-> TRUE, key |-> KeyAt(d, q.name, q.cycle)]
  ELSE IF q.cycle > MaxCycleOf(d, q.name)
       THEN [found |-> TRUE, key |-> KeyAt(d, q.name, MaxCycleOf(d, q.name))]
  ELSE [found |-> FALSE, key |-> NoKey]

\* Mutant: cycle 0 is taken for "no cycle given".
GetZeroLatest(d, q) ==
  IF KeysNamed(d, q.name) = {} THEN [found |-> FALSE, key |-> NoKey]
  ELSE IF ~q.hasCycle \/ q.cycle = 0
       THEN [found |-> TRUE, key |-> KeyAt(d, q.name, MaxCycleOf(d, q.name))]
  ELSE IF \E i \in KeysNamed(d, q.name) : d[i].cycle = q.cycle
       THEN [found |-> TRUE, key |-> KeyAt(d, q.name, q.cycle)]
  ELSE IF q.cycle > MaxCycleOf(d, q.name)
       THEN [found |-> TRUE, key |-> KeyAt(d, q.name, MaxCycleOf(d, q.name))]
  ELSE [found |-> FALSE, key |-> NoKey]

\* resolve(query): query = name or name;cycle, split into q.name and the
\* optional q.cycle (q.hasCycle).
Get(d, q) ==
  IF KeysNamed(d, q.name) = {} THEN [found |-> FALSE, key |-> NoKey]
  ELSE IF ~q.hasCycle
       THEN [found |-> TRUE, key |-> KeyAt(d, q.name, MaxCycleOf(d, q.name))]
  ELSE IF q.cycle = 0 THEN [found |-> FALSE, key |-> NoKey]
  ELSE IF \E i \in KeysNamed(d, q.name) : d[i].cycle = q.cycle
       THEN [found |-> TRUE, key |-> KeyAt(d, q.name, q.cycle)]
  ELSE IF q.cycle > MaxCycleOf(d, q.name)
       THEN [found |-> TRUE, key |-> KeyAt(d, q.name, MaxCycleOf(d, q.name))]
  ELSE [found |-> FALSE, key |-> NoKey]

\* ------------------------------------------------------------ input sets
KeyOf(i) == <<20 + i>>
AllKeys == {KeyOf(i) : i \in 1..MaxKeys}
ValOf(k) == k[1] - 20
ParamMaps == {NilMap} \cup {MkMap([k \in S |-> ValOf(k)]) : S \in SUBSET AllKeys}

Objs == {NilObj, MkObj(1, 5), MkObj(2, 6), MkObj(UnregisteredClass, 7)}
SeqsUpTo(S, n) == UNION {[1..k -> S] : k \in 0..n}
PartVecs == {NilVec} \cup {MkVec(s) : s \in SeqsUpTo(Objs, MaxParts)}

\* Two independent choices fix the scalar fields; every field takes two
\* values and neighbouring fields on the wire follow different choices.
FormulaOf(p1, p2, pm, pv) ==
  [named |-> IF p1 THEN NewNamed(<<7>>, <<8, 8>>) ELSE NewNamed(<<>>, <<>>),
   clingParams |-> IF p2 THEN <<5, 6>> ELSE <<>>,
   allParamsSet |-> p1,
   params |-> pm,
   formula |-> IF p1 THEN <<9>> ELSE <<>>,
   ndim |-> IF p2 THEN 2 ELSE 0,
   linearParts |-> pv,
   vectorized |-> p2]

Formulas == {FormulaOf(p1, p2, pm, pv) : p1 \in BOOLEAN, p2 \in BOOLEAN,
                                         pm \in ParamMaps, pv \in PartVecs}
FewFormulas == {FormulaOf(TRUE, FALSE, pm, pv) : pm \in ParamMaps, pv \in PartVecs}

\* The orders in which `range m` may yield the keys of a Go map.
Perms(S) == {o \in [1..Cardinality(S) -> S] : \A i, j \in 1..Cardinality(S) :
                                                 i # j => o[i] # o[j]}

CorruptVals == {-1, 0, 3, 11, 12, 14}

DirNames == {"tree", "other"}
QueryNames == DirNames \cup {"tree_nope"}
BigCycle == 9999
Queries == {[name |-> n, hasCycle |-> h, cycle |-> c] :
              n \in QueryNames, h \in {TRUE}, c \in (0..(MaxCycle + 1)) \cup {BigCycle}}
           \cup {[name |-> n, hasCycle |-> FALSE, cycle |-> 0] : n \in QueryNames}
DirKeys == {[name |-> n, cycle |-> c, class |-> "TTree"] : n \in DirNames, c \in 1..MaxCycle}

\* ----------------------------------------------------------------- state
VARIABLES
  f,      \* the Formula being encoded
  w,      \* the write buffer
  wres,   \* the last MarshalROOT call: calls, n, err, w0 (the buffer before)
  outs,   \* the bytes appended by each error-free MarshalROOT call
  r,      \* the read buffer
  rsrc,   \* how r was made: "none" (no reader yet), "loaded", "corrupt", "truncated"
  g,      \* the Formula being decoded into
  res,    \* the last UnmarshalROOT call: calls, ret, panic, r0 and r1 (the
          \* buffer before and after), g0 (the receiver before)
  dir,    \* the Directory: the Keys scanned from the key table, in order
  opened, \* the Directory is built; read-only from here on
  got     \* the last resolution: q (the query), found, key

vars == <<f, w, wres, outs, r, rsrc, g, res, dir, opened, got>>

codecVars == <<f, w, wres, outs, r, rsrc, g, res>>
dirVars == <<dir, opened, got>>

NoQuery == [name |-> "", hasCycle |-> FALSE, cycle |-> 0]

InitDir ==
  /\ dir = <<>>
  /\ opened = FALSE
  /\ got = [calls |-> 0, q |-> NoQuery, found |-> FALSE, key |-> NoKey]

InitCodec(F) ==
  /\ f \in F
  /\ w = NewWBuffer
  /\ wres = [calls |-> 0, n |-> 0, err |-> NoErr, w0 |-> NewWBuffer]
  /\ outs = <<>>
  /\ r = NewRBuffer(<<>>)
  /\ rsrc = "none"
  /\ g = newFormula
  /\ res = [calls |-> 0, ret |-> NoRet, panic |-> NoPanic,
            r0 |-> NewRBuffer(<<>>), r1 |-> NewRBuffer(<<>>), g0 |-> newFormula]

Init == InitCodec(Formulas) /\ InitDir
InitFew == InitCodec(FewFormulas) /\ InitDir
InitOpen == InitCodec({newFormula}) /\ InitDir

\* --------------------------------------------------------------- actions
\* f.MarshalROOT(w).  Encoding comes first: the reader is made over what was
\* encoded.
DoMarshal ==
  /\ wres.calls < MaxMarshal
  /\ rsrc = "none"
  /\ \E order \in Perms(DOMAIN f.params.m) :
       \E m \in {MarshalROOT(f, w, order)} :
          /\ w' = m.w
          /\ wres' = [calls |-> wres.calls + 1, n |-> m.n, err |-> m.err, w0 |-> w]
          /\ outs' = IF m.err = NoErr
                     THEN Append(outs, SubSeq(m.w.buf, Len(w.buf) + 1, Len(m.w.buf)))
                     ELSE outs
  /\ UNCHANGED <<f, r, rsrc, g, res, dirVars>>

\* w.SetErr(err)
WSetErr ==
  /\ w.err = NoErr
  /\ rsrc = "none"
  /\ w' = [w EXCEPT !.err = "Injected"]
  /\ UNCHANGED <<f, wres, outs, r, rsrc, g, res, dirVars>>

\* r = rbytes.NewRBuffer(w.Bytes(), ...), over one encoded record.
Load ==
  /\ rsrc = "none"
  /\ wres.calls = 1 /\ Len(outs) = 1
  /\ r' = NewRBuffer(w.buf)
  /\ rsrc' = "loaded"
  /\ UNCHANGED <<f, w, wres, outs, g, res, dirVars>>

\* r.SetErr(err)
RSetErr ==
  /\ rsrc # "none"
  /\ r.err = NoErr
  /\ r' = SetErr(r, "Injected")
  /\ UNCHANGED <<f, w, wres, outs, rsrc, g, res, dirVars>>

\* One cell of the stored record is overwritten before it is decoded.
Corrupt ==
  /\ rsrc = "loaded"
  /\ res.calls = 0
  /\ r.log = <<>>
  /\ \E i \in 1..Len(r.buf), v \in CorruptVals :
       /\ r.buf[i] # v
       /\ r' = [r EXCEPT !.buf[i] = v]
  /\ rsrc' = "corrupt"
  /\ UNCHANGED <<f, w, wres, outs, g, res, dirVars>>

\* The stored record is cut short before it is decoded.
Truncate ==
  /\ rsrc = "loaded"
  /\ res.calls = 0
  /\ r.log = <<>>
  /\ \E n \in 0..(Len(r.buf) - 1) : r' = [r EXCEPT !.buf = SubSeq(@, 1, n)]
  /\ rsrc' = "truncated"
  /\ UNCHANGED <<f, w, wres, outs, g, res, dirVars>>

\* g.UnmarshalROOT(r); a panic ends the decoding goroutine.
DoUnmarshal ==
  /\ rsrc # "none"
  /\ res.calls < MaxUnmarshal
  /\ res.panic = NoPanic
  /\ \E u \in {UnmarshalROOT(g, r)} :
        /\ g' = u.f
        /\ r' = u.r
        /\ res' = [calls |-> res.calls + 1, ret |-> u.ret, panic |-> u.panic,
                   r0 |-> r, r1 |-> u.r, g0 |-> g]
  /\ UNCHANGED <<f, w, wres, outs, rsrc, dirVars>>

\* Opening a file scans its key table into the Directory.
ScanKey ==
  /\ ~opened
  /\ Len(dir) < MaxDirLen
  /\ \E k \in DirKeys :
       /\ \A i \in 1..Len(dir) : ~(dir[i].name = k.name /\ dir[i].cycle = k.cycle)
       /\ dir' = Append(dir, k)
  /\ UNCHANGED <<opened, got, codecVars>>

Open ==
  /\ ~opened
  /\ opened' = TRUE
  /\ UNCHANGED <<dir, got, codecVars>>

\* f.Get(namecycle)
Resolve ==
  /\ opened
  /\ \E q \in Queries :
       \E x \in {Get(dir, q)} : got' = [calls |-> 1, q |-> q, found |-> x.found, key |-> x.key]
  /\ UNCHANGED <<dir, opened, codecVars>>

Next == DoMarshal \/ WSetErr \/ Load \/ RSetErr \/ DoUnmarshal

NextFault == DoMarshal \/ Load \/ Corrupt \/ Truncate \/ DoUnmarshal

NextDir == ScanKey \/ Open \/ Resolve

Spec == Init /\ [][Next]_vars

SpecFault == InitFew /\ [][NextFault]_vars

SpecDir == InitOpen /\ [][NextDir]_vars

\* ===================================================================
\* Properties
\* ===================================================================
\* The first UnmarshalROOT call of a behaviour, made into a blank Formula on
\* an error-free buffer holding MarshalROOT(f) unaltered.
DecodedEncoding ==
  /\ res.calls = 1
  /\ rsrc = "loaded"
  /\ res.r0.err = NoErr
  /\ res.r0.pos = 0

AllRegistered(x) ==
  \A i \in 1..Len(x.linearParts.s) :
    x.linearParts.s[i].nil \/ x.linearParts.s[i].class \in Registry

\* x with its nil containers replaced by empty ones.
NonNil(x) ==
  [x EXCEPT !.params = MkMap(x.params.m), !.linearParts = MkVec(x.linearParts.s)]

\* C1 (as stated): decoding the bytes MarshalROOT(x) produced ends with no
\* error and yields a Formula equal to x in every field.
C1_RoundTripExact ==
  (DecodedEncoding /\ AllRegistered(f)) =>
    (res.ret = NoErr /\ res.panic = NoPanic /\ g = f)

\* C1 (amended): decoding the bytes MarshalROOT(x) produced ends with no
\* error and yields x with every field equal, a nil params map or nil
\* linearParts slice of x coming back as an empty, non-nil one.
C1_RoundTrip ==
  (DecodedEncoding /\ AllRegistered(f)) =>
    (res.ret = NoErr /\ res.panic = NoPanic /\ g = NonNil(f))

C1_Witness ==
  /\ DecodedEncoding /\ AllRegistered(f) /\ g = f
  /\ Cardinality(DOMAIN f.params.m) = MaxKeys
  /\ Len(f.linearParts.s) >= 1 /\ ~f.linearParts.s[1].nil
  /\ f.allParamsSet /\ ~f.vectorized

\* The buffer operations the last UnmarshalROOT call issued.
NewEv == (Len(res.r0.log) + 1)..Len(res.r1.log)

\* The last call read its frame header from cells the buffer holds.
HeaderRead == res.calls >= 1 /\ res.r0.err = NoErr /\ res.r0.pos + 2 <= Len(res.r0.buf)
VersionRead == res.r0.buf[res.r0.pos + 1]

\* C2: a record whose version is above rvers.Formula fails as
\* UnsupportedVersion, one below 12 as ObsoleteVersion; either way the
\* cursor stands just past the frame header and no field of the receiver
\* has changed.
C2_VersionGate ==
  HeaderRead =>
    /\ (VersionRead > 13) =>
         (res.panic = "UnsupportedVersion" /\ res.ret = NoRet
          /\ res.r1.pos = res.r0.pos + 2 /\ g = res.g0)
    /\ (VersionRead < 12) =>
         (res.panic = "ObsoleteVersion" /\ res.ret = NoRet
          /\ res.r1.pos = res.r0.pos + 2 /\ g = res.g0)
    /\ (VersionRead \in {12, 13}) => res.panic \notin {"UnsupportedVersion", "ObsoleteVersion"}

C2_Witness ==
  /\ HeaderRead /\ VersionRead = 14 /\ res.panic = "UnsupportedVersion"
  /\ rsrc = "corrupt" /\ res.r1.pos = 2

CodecClasses == {"TFormula", "map<TString,int,TFormulaParamOrder>", "vector<TObject*>"}

Returned == res.calls >= 1 /\ res.panic = NoPanic

\* C3 (as stated): whenever an end-of-record check of one of the three
\* records is reached with consumed # recorded, the buffer ends with
\* FrameLengthMismatch and UnmarshalROOT returns it.
C3_MismatchAlwaysReported ==
  Returned =>
    \A k \in NewEv :
      (res.r1.log[k].op = "CheckByteCount" /\ res.r1.log[k].class \in CodecClasses
       /\ res.r1.log[k].a # res.r1.log[k].b) => res.ret = "FrameLengthMismatch"

\* The record of class c was begun once and closed once by a check of the
\* bytes consumed since its length field against its recorded length.
FrameChecked(c) ==
  \E h \in NewEv, k \in NewEv :
    /\ h < k
    /\ res.r1.log[h].op = "ReadVersion" /\ res.r1.log[h].class = c
    /\ res.r1.log[k].op = "CheckByteCount" /\ res.r1.log[k].class = c
    /\ res.r1.log[k].b = res.r1.log[h].b
    /\ res.r1.log[k].a = res.r1.log[k].pb - (res.r1.log[h].pb + 1)
    /\ res.r1.log[k].a = res.r1.log[k].b
    /\ \A j \in NewEv : (res.r1.log[j].class = c /\ j \notin {h, k}) => res.r1.log[j].op = "SetErr"

\* C3 (amended): an end-of-record check reached with no error yet on the
\* buffer and consumed # recorded sets FrameLengthMismatch, which
\* UnmarshalROOT returns; reached with an error already set it leaves that
\* error; and UnmarshalROOT never returns success unless each of the three
\* records consumed exactly its recorded length.
C3_Mismatch ==
  Returned =>
    /\ \A k \in NewEv :
         (res.r1.log[k].op = "CheckByteCount" /\ res.r1.log[k].a # res.r1.log[k].b) =>
            IF res.r1.log[k].eb = NoErr
            THEN res.r1.log[k].ea = "FrameLengthMismatch" /\ res.ret = "FrameLengthMismatch"
            ELSE res.r1.log[k].ea = res.r1.log[k].eb /\ res.ret # NoErr
    /\ (res.ret = NoErr) => \A c \in CodecClasses : FrameChecked(c)

C3_Witness ==
  /\ Returned /\ res.ret = "FrameLengthMismatch"
  /\ \E k \in NewEv : /\ res.r1.log[k].op = "CheckByteCount"
                      /\ res.r1.log[k].class = "map<TString,int,TFormulaParamOrder>"
                      /\ res.r1.log[k].eb = NoErr /\ res.r1.log[k].a # res.r1.log[k].b

\* C4: once an error is set on a buffer every later operation is a no-op
\* that keeps the cursor and the first error, and MarshalROOT and
\* UnmarshalROOT return that first error.
C4_Sticky ==
  /\ \A k \in NewEv :
       (res.r1.log[k].eb # NoErr) => (res.r1.log[k].pa = res.r1.log[k].pb /\ res.r1.log[k].ea = res.r1.log[k].eb)
  /\ (res.calls >= 1 /\ \E k \in NewEv : res.r1.log[k].ea # NoErr) =>
       (res.panic = NoPanic /\ res.ret = res.r1.err)
  /\ (res.calls >= 1 /\ res.r0.err # NoErr) =>
       (res.ret = res.r0.err /\ res.r1.pos = res.r0.pos /\ res.r1.err = res.r0.err)
  /\ (wres.calls >= 1 /\ wres.w0.err # NoErr) =>
       (wres.err = wres.w0.err /\ w.buf = wres.w0.buf /\ w.err = wres.w0.err)

\* C7: encoding the same Formula twice gives byte-identical output.
C7_Deterministic ==
  \A i, j \in 1..Len(outs) : outs[i] = outs[j]

\* C8: decoding a Formula whose linearParts holds a reference tagged with an
\* unregistered class returns UnknownClass, the fields before linearParts
\* holding the values read from the buffer.
C8_UnknownClass ==
  /\ (DecodedEncoding /\ ~AllRegistered(f)) =>
       /\ res.ret = "UnknownClass" /\ res.panic = NoPanic
       /\ g.named = f.named /\ g.clingParams = f.clingParams
       /\ g.allParamsSet = f.allParamsSet /\ g.params = MkMap(f.params.m)
       /\ g.formula = f.formula /\ g.ndim = f.ndim
  /\ Returned =>
       \A k \in NewEv :
         (res.r1.log[k].op = "ReadObjectAny" /\ res.r1.log[k].eb = NoErr
          /\ res.r1.log[k].a # 0 /\ res.r1.log[k].a \notin Registry /\ res.r1.log[k].pa = res.r1.log[k].pb + 1)
         => res.ret = "UnknownClass"

C8_Witness ==
  /\ DecodedEncoding /\ ~AllRegistered(f) /\ res.ret = "UnknownClass"
  /\ f.allParamsSet /\ g.allParamsSet /\ Cardinality(DOMAIN g.params.m) = MaxKeys

\* The frames the last MarshalROOT call opened and closed.
WNew == (Len(wres.w0.log) + 1)..Len(w.log)
Opens(k) == Cardinality({j \in WNew : j <= k /\ w.log[j].op = "begin"})
Closes(k) == Cardinality({j \in WNew : j <= k /\ w.log[j].op = "end"})
\* The begin that the end at k closes: the latest one still open before k.
OpenerOf(k) ==
  CHOOSE j \in WNew :
    /\ j < k /\ w.log[j].op = "begin"
    /\ Opens(k - 1) - Opens(j) = Closes(k - 1) - Closes(j)
    /\ \A i \in WNew : (j < i /\ i < k /\ w.log[i].op = "begin") =>
         \E e \in WNew : /\ i < e /\ e < k /\ w.log[e].op = "end"
                         /\ w.log[e].pos = w.log[i].pos

FrameCount(x) ==
  4 + Cardinality({i \in 1..Len(x.linearParts.s) : ~x.linearParts.s[i].nil})

\* C9: after an error-free MarshalROOT every frame's length field holds
\* currentPosition - reservedPosition as it was when the frame was closed,
\* begins and ends nest properly, the outer frame spans everything written
\* and its recorded length is the length returned.
C9_Frames ==
  (wres.calls >= 1 /\ wres.err = NoErr /\ wres.w0.err = NoErr) =>
    /\ Opens(Len(w.log)) = FrameCount(f)
    /\ Closes(Len(w.log)) = FrameCount(f)
    /\ \A k \in WNew : Closes(k) <= Opens(k)
    /\ \A k \in WNew : w.log[k].op = "end" =>
         /\ w.log[OpenerOf(k)].pos = w.log[k].pos
         /\ w.buf[w.log[k].pos + 1] = w.log[k].cur - w.log[k].pos
    /\ w.log[Len(wres.w0.log) + 1] =
         [op |-> "begin", pos |-> Len(wres.w0.buf) + 1, cur |-> Len(wres.w0.buf) + 1]
    /\ w.log[Len(w.log)] =
         [op |-> "end", pos |-> Len(wres.w0.buf) + 1, cur |-> Len(w.buf)]
    /\ wres.n = w.buf[Len(wres.w0.buf) + 2]
    /\ wres.n = Len(w.buf) - (Len(wres.w0.buf) + 1)

C9_Witness ==
  /\ wres.calls = 2 /\ wres.err = NoErr /\ Len(outs) = 2
  /\ FrameCount(f) = 4 + MaxParts
  /\ Cardinality(DOMAIN f.params.m) = MaxKeys

ContainerClasses == {"map<TString,int,TFormulaParamOrder>", "vector<TObject*>"}

\* C10: a container frame whose version is not rvers.StreamerInfo makes
\* readMapStringInt / readStdVectorObjP set an error and return a nil
\* container without reading the count or an entry and without running the
\* end-of-record check; UnmarshalROOT reads nothing more and returns that
\* error.
C10_ContainerVersion ==
  Returned =>
    \A h \in NewEv :
      (res.r1.log[h].op = "ReadVersion" /\ res.r1.log[h].class \in ContainerClasses
       /\ res.r1.log[h].eb = NoErr /\ res.r1.log[h].a # 9) =>
        /\ h + 1 \in NewEv /\ res.r1.log[h + 1].op = "SetErr"
        /\ res.r1.log[h + 1].ea # NoErr
        /\ res.ret = res.r1.log[h + 1].ea
        /\ res.r1.pos = res.r1.log[h].pa
        /\ \A k \in NewEv : k > h =>
             /\ res.r1.log[k].pa = res.r1.log[h].pa
             /\ ~(res.r1.log[k].op = "CheckByteCount" /\ res.r1.log[k].class = res.r1.log[h].class)
        /\ g.linearParts = NilVec
        /\ (res.r1.log[h].class = "map<TString,int,TFormulaParamOrder>") => g.params = NilMap

C10_Witness ==
  /\ Returned /\ res.ret = "InvalidVersion" /\ g.params = NilMap
  /\ g.allParamsSet /\ rsrc = "corrupt"
  /\ \E h \in NewEv : /\ res.r1.log[h].op = "ReadVersion" /\ res.r1.log[h].a = 12
                      /\ res.r1.log[h].class = "map<TString,int,TFormulaParamOrder>"

\* ---- Directory
Resolved == got.calls = 1
KeyNamed(i) == dir[i].name = got.q.name
HasName == \E i \in 1..Len(dir) : KeyNamed(i)
Exact == \E i \in 1..Len(dir) : KeyNamed(i) /\ dir[i].cycle = got.q.cycle
IsLatest(k) ==
  /\ \E i \in 1..Len(dir) : dir[i] = k
  /\ k.name = got.q.name
  /\ \A i \in 1..Len(dir) : KeyNamed(i) => dir[i].cycle <= k.cycle

\* C5: for a name the Directory holds and a cycle absent or >= 1: absent
\* gives the Key of greatest cycle; an exact (name, cycle) Key is returned;
\* else a cycle above the greatest gives the Key of greatest cycle and one
\* below it gives not-found.  A returned Key has the queried name.
C5_Resolution ==
  (Resolved /\ HasName /\ (got.q.hasCycle => got.q.cycle >= 1)) =>
    /\ ~got.q.hasCycle => (got.found /\ IsLatest(got.key))
    /\ (got.q.hasCycle /\ Exact) =>
         /\ got.found /\ got.key.name = got.q.name /\ got.key.cycle = got.q.cycle
         /\ \E i \in 1..Len(dir) : dir[i] = got.key
    /\ (got.q.hasCycle /\ ~Exact /\ \A i \in 1..Len(dir) : KeyNamed(i) => dir[i].cycle < got.q.cycle)
         => (got.found /\ IsLatest(got.key))
    /\ (got.q.hasCycle /\ ~Exact /\ \E i \in 1..Len(dir) : KeyNamed(i) /\ dir[i].cycle > got.q.cycle)
         => ~got.found
    /\ got.found => got.key.name = got.q.name

C5_Witness ==
  /\ Resolved /\ got.q.hasCycle /\ got.q.cycle = BigCycle /\ got.found
  /\ got.key.cycle = 2 /\ Len(dir) = MaxDirLen
  /\ \E i \in 1..Len(dir) : KeyNamed(i) /\ dir[i].cycle = 1 /\ dir[Len(dir)] # got.key

\* C6: a query with cycle 0 never gets a Key, and neither does a query for
\* a name the Directory holds no Key of.
C6_NeverFound ==
  Resolved =>
    /\ (got.q.hasCycle /\ got.q.cycle = 0) => ~got.found
    /\ ~HasName => ~got.found

C6_Witness ==
  /\ Resolved /\ got.q.hasCycle /\ got.q.cycle = 0 /\ HasName /\ ~got.found
  /\ Len(dir) >= 2

====
